---------------------------- MODULE Spec2Model ----------------------------
(***************************************************************************)
(* Model of PDFSteganography (src/pdf_stego.py): the codec that appends a  *)
(* marker-delimited, length-prefixed package after the last %%EOF of a PDF *)
(* and later locates, parses and extracts it.                              *)
(*                                                                         *)
(* Bytes are the integers 0..255 and a byte string is a sequence of them.  *)
(* A text string (str) is a sequence of code points; a path is a text      *)
(* string.  The file system is a function from the paths of the regular    *)
(* files to their contents, together with the set of existing directories. *)
(* Offsets are 0-based as in Python; -1 is "not found".                    *)
(***************************************************************************)
EXTENDS Integers, Sequences, FiniteSets, TLC

(***************************************************************************)
(* Bounds of the model.                                                    *)
(***************************************************************************)
\* extract_file runs while fewer files than this have been extracted
MaxExtracted == 2
\* hide_file is given carriers of at most this many bytes
MaxCarrierLen == 80

\* the step-by-step extract_file finds at most this many files in its way
MaxColliding == 4

(***************************************************************************)
(* Program constants.                                                      *)
(***************************************************************************)
\* b"<<HIDDEN_DATA_START>>"
MARKER ==
    <<60, 60, 72, 73, 68, 68, 69, 78, 95, 68, 65, 84, 65, 95, 83, 84, 65, 82, 84, 62, 62>>

\* b"<<HIDDEN_DATA_END>>"
MARKER_END ==
    <<60, 60, 72, 73, 68, 68, 69, 78, 95, 68, 65, 84, 65, 95, 69, 78, 68, 62, 62>>

\* b'%PDF-'
PDF_HEADER == <<37, 80, 68, 70, 45>>

\* b'%%EOF'
eof_marker == <<37, 37, 69, 79, 70>>

\* b'\n'
NEWLINE == <<10>>

\* ['.txt', '.jpg', '.png', '.pdf', '.docx', '.exe']
SUPPORTED_FORMATS ==
    { <<46, 116, 120, 116>>, <<46, 106, 112, 103>>, <<46, 112, 110, 103>>,
      <<46, 112, 100, 102>>, <<46, 100, 111, 99, 120>>, <<46, 101, 120, 101>> }

(***************************************************************************)
(* Python's bytes / str primitives used by the codec.                      *)
(***************************************************************************)
Min(a, b) == IF a < b THEN a ELSE b

\* s[a:b] for 0 <= a, 0 <= b
Slice(s, a, b) ==
    IF a >= Min(b, Len(s)) THEN << >> ELSE SubSeq(s, a + 1, Min(b, Len(s)))

\* s[:b]
Prefix(s, b) == Slice(s, 0, b)

\* s[a:]
Suffix(s, a) == Slice(s, a, Len(s))

\* whether m occurs in s at 0-based offset i
OccursAt(s, m, i) ==
    /\ i >= 0
    /\ i + Len(m) <= Len(s)
    /\ \A k \in 1..Len(m) : s[i + k] = m[k]

\* the offsets at which m, not empty, occurs in s
Occurrences(s, m) ==
    { i \in 0..(Len(s) - Len(m)) : s[i + 1] = m[1] /\ \A k \in 2..Len(m) : s[i + k] = m[k] }

\* bytes.find(m): the lowest offset of m in s, or -1
Find(s, m) ==
    LET occ == Occurrences(s, m)
    IN  IF occ = {} THEN -1 ELSE CHOOSE i \in occ : \A j \in occ : i <= j

\* bytes.rfind(m): the highest offset of m in s, or -1
Rfind(s, m) ==
    LET occ == Occurrences(s, m)
    IN  IF occ = {} THEN -1 ELSE CHOOSE i \in occ : \A j \in occ : i >= j

\* m in s
Contains(s, m) == Find(s, m) # -1

\* struct.pack('<I', n): 4 bytes, little-endian.  It raises struct.error for
\* n >= 2^32; no name or payload of the model is that long.
PackU32(n) ==
    << n % 256, (n \div 256) % 256, (n \div 65536) % 256, (n \div 16777216) % 256 >>

\* struct.unpack('<I', b)[0] of a 4-byte string (the inputs of the model keep
\* the value below 2^31, the range of the checker's integers)
UnpackU32(b) == b[1] + 256 * b[2] + 65536 * b[3] + 16777216 * b[4]


(***************************************************************************)
(* Text: str.encode('utf-8'), bytes.decode('utf-8'), str(int), str.lower.  *)
(***************************************************************************)
\* the UTF-8 encoding of one code point
EncodeCodePoint(c) ==
    IF c < 128 THEN << c >>
    ELSE IF c < 2048 THEN << 192 + (c \div 64), 128 + (c % 64) >>
    ELSE IF c < 65536
         THEN << 224 + (c \div 4096), 128 + ((c \div 64) % 64), 128 + (c % 64) >>
    ELSE << 240 + (c \div 262144), 128 + ((c \div 4096) % 64),
            128 + ((c \div 64) % 64), 128 + (c % 64) >>

RECURSIVE Utf8Encode(_)
\* str.encode('utf-8')
Utf8Encode(str) ==
    IF str = << >> THEN << >>
    ELSE EncodeCodePoint(Head(str)) \o Utf8Encode(Tail(str))

\* a continuation byte 10xxxxxx
IsCont(b, i) == i <= Len(b) /\ b[i] >= 128 /\ b[i] <= 191

\* the number of bytes of the well-formed UTF-8 sequence at the head of b, 0 if none
Utf8SeqLen(b) ==
    LET x == b[1]
    IN  IF x < 128 THEN 1
        ELSE IF x >= 194 /\ x <= 223 /\ IsCont(b, 2) THEN 2
        ELSE IF /\ x >= 224 /\ x <= 239 /\ IsCont(b, 2) /\ IsCont(b, 3)
                /\ (x = 224 => b[2] >= 160)
                /\ (x = 237 => b[2] <= 159)
             THEN 3
        ELSE IF /\ x >= 240 /\ x <= 244 /\ IsCont(b, 2) /\ IsCont(b, 3) /\ IsCont(b, 4)
                /\ (x = 240 => b[2] >= 144)
                /\ (x = 244 => b[2] <= 143)
             THEN 4
        ELSE 0

\* the code point of the well-formed sequence of n bytes at the head of b
Utf8CodePoint(b, n) ==
    IF n = 1 THEN b[1]
    ELSE IF n = 2 THEN (b[1] - 192) * 64 + (b[2] - 128)
    ELSE IF n = 3 THEN (b[1] - 224) * 4096 + (b[2] - 128) * 64 + (b[3] - 128)
    ELSE (b[1] - 240) * 262144 + (b[2] - 128) * 4096 + (b[3] - 128) * 64 + (b[4] - 128)

RECURSIVE Utf8Valid(_)
\* whether bytes.decode('utf-8') succeeds (no UnicodeDecodeError)
Utf8Valid(b) ==
    IF b = << >> THEN TRUE
    ELSE LET n == Utf8SeqLen(b)
         IN  n > 0 /\ Utf8Valid(Suffix(b, n))

RECURSIVE Utf8Decode(_)
\* bytes.decode('utf-8') of a well-formed byte string
Utf8Decode(b) ==
    IF b = << >> THEN << >>
    ELSE LET n == Utf8SeqLen(b)
         IN  << Utf8CodePoint(b, n) >> \o Utf8Decode(Suffix(b, n))

RECURSIVE Decimal(_)
\* str(n) for n >= 0, as used by the f-string of the collision loop
Decimal(n) ==
    IF n < 10 THEN << 48 + n >> ELSE Decimal(n \div 10) \o << 48 + (n % 10) >>

\* a lower() that leaves every character as it is
Lower_identity(str) == str

\* str.lower() (ASCII letters; the names of the model are ASCII)
Lower(str) ==
    [ i \in 1..Len(str) |-> IF str[i] >= 65 /\ str[i] <= 90 THEN str[i] + 32 ELSE str[i] ]

(***************************************************************************)
(* os.path on POSIX: '/' is 47, '.' is 46.                                 *)
(***************************************************************************)
\* os.path.basename(p)
Basename(p) == Suffix(p, Rfind(p, << 47 >>) + 1)

\* os.path.join(a, b)
Join(a, b) ==
    IF b # << >> /\ b[1] = 47 THEN b
    ELSE IF a = << >> \/ a[Len(a)] = 47 THEN a \o b
    ELSE a \o << 47 >> \o b

\* os.path.splitext(p): the extension starts at the last dot of the last
\* component, unless that component has only leading dots before it
Splitext(p) ==
    LET sepIndex == Rfind(p, << 47 >>)
        dotIndex == Rfind(p, << 46 >>)
    IN  IF /\ dotIndex > sepIndex
           /\ \E k \in (sepIndex + 1)..(dotIndex - 1) : p[k + 1] # 46
        THEN << Prefix(p, dotIndex), Suffix(p, dotIndex) >>
        ELSE << p, << >> >>

(***************************************************************************)
(* The file system.  fs maps the key of every regular file to its bytes    *)
(* and dirs is the set of the keys of the directories.  A key is the path  *)
(* with its "", "." and ".." components resolved: "." is the working       *)
(* directory, "a.txt" a file in it, "d/a.txt" a file in its directory d.   *)
(* There are no symbolic links.                                            *)
(***************************************************************************)
\* "."
Cwd == << 46 >>

\* ".."
Pardir == << 46, 46 >>

\* "/"
Root == << 47 >>

RECURSIVE SplitPath(_)
\* p.split('/')
SplitPath(p) ==
    LET i == Find(p, Root)
    IN  IF i = -1 THEN << p >> ELSE << Prefix(p, i) >> \o SplitPath(Suffix(p, i + 1))

\* the key of the entry called name in the directory of key dir
JoinKey(dir, name) ==
    IF dir = Cwd THEN name
    ELSE IF dir = Root THEN Root \o name
    ELSE dir \o Root \o name

\* the key of the directory above the directory of key k
ParentKey(k) ==
    IF k = Root THEN Root
    ELSE IF k = Cwd THEN Pardir
    ELSE IF /\ Len(k) >= 2
            /\ Suffix(k, Len(k) - 2) = Pardir
            /\ (Len(k) = 2 \/ k[Len(k) - 2] = 47)
    THEN k \o Root \o Pardir
    ELSE IF Rfind(k, Root) = -1 THEN Cwd
    ELSE IF Rfind(k, Root) = 0 THEN Root
    ELSE Prefix(k, Rfind(k, Root))

RECURSIVE Walk(_, _, _)
\* path resolution from the directory of key cur: the key reached, or << >> when
\* a component to descend through is not a directory
Walk(dirs, cur, comps) ==
    IF comps = << >> THEN cur
    ELSE IF cur \notin dirs THEN << >>
    ELSE IF Head(comps) = << >> \/ Head(comps) = Cwd THEN Walk(dirs, cur, Tail(comps))
    ELSE IF Head(comps) = Pardir THEN Walk(dirs, ParentKey(cur), Tail(comps))
    ELSE Walk(dirs, JoinKey(cur, Head(comps)), Tail(comps))

\* the key path p resolves to, or << >> when it cannot be resolved (a missing
\* directory on the way, an empty path, a path with a NUL)
Key(dirs, p) ==
    IF p = << >> \/ (\E k \in 1..Len(p) : p[k] = 0) THEN << >>
    ELSE Walk(dirs, IF p[1] = 47 THEN Root ELSE Cwd, SplitPath(p))

\* os.path.exists(p)
PathExists(fs, dirs, p) ==
    LET k == Key(dirs, p) IN k \in DOMAIN fs \/ k \in dirs

\* whether open(p, 'wb') succeeds for the p of key k: p resolves, and not to a
\* directory
CanOpenWrite(dirs, k) == k # << >> /\ k \notin dirs

\* open(p, 'wb').write(bytes) for the p of key k: the file is replaced or created
WriteFile(fs, k, bytes) ==
    [ q \in DOMAIN fs \cup { k } |-> IF q = k THEN bytes ELSE fs[q] ]

RECURSIVE MakeWalk(_, _, _, _)
\* os.makedirs from the directory of key cur: the directories afterwards, or
\* { << >> } when a component is a regular file
MakeWalk(fs, dirs, cur, comps) ==
    IF comps = << >> THEN dirs
    ELSE IF Head(comps) = << >> \/ Head(comps) = Cwd
    THEN MakeWalk(fs, dirs, cur, Tail(comps))
    ELSE IF Head(comps) = Pardir
    THEN MakeWalk(fs, dirs, ParentKey(cur), Tail(comps))
    ELSE IF JoinKey(cur, Head(comps)) \in DOMAIN fs THEN { << >> }
    ELSE MakeWalk(fs, dirs \cup { JoinKey(cur, Head(comps)) },
                  JoinKey(cur, Head(comps)), Tail(comps))

\* os.makedirs(d, exist_ok=True): the directories afterwards, or { << >> } when
\* it raises
Makedirs(fs, dirs, d) ==
    IF d = << >> THEN { << >> }
    ELSE MakeWalk(fs, dirs, IF d[1] = 47 THEN Root ELSE Cwd, SplitPath(d))

(***************************************************************************)
(* PDFSteganography                                                        *)
(***************************************************************************)
\* validate_pdf without the comparison of the header
validate_pdf_no_header(fs, dirs, pdf_path) ==
    LET k == Key(dirs, pdf_path)
    IN  IF k \notin DOMAIN fs /\ k \notin dirs THEN "NotFound"
        ELSE IF k \notin DOMAIN fs THEN "IoError"
        ELSE "ok"

\* validate_pdf: "ok", or the error it raises (opening a directory: IoError)
validate_pdf(fs, dirs, pdf_path) ==
    LET k == Key(dirs, pdf_path)
    IN  IF k \notin DOMAIN fs /\ k \notin dirs THEN "NotFound"
        ELSE IF k \notin DOMAIN fs THEN "IoError"
        ELSE IF Prefix(fs[k], 5) # PDF_HEADER THEN "InvalidFormat"
        ELSE "ok"

\* validate_file_format without the allow-list
validate_file_format_any(file_path) == "ok"

\* validate_file_format: "ok", or the error it raises
validate_file_format(file_path) ==
    IF Lower(Splitext(file_path)[2]) \notin SUPPORTED_FORMATS
    THEN "UnsupportedFormat"
    ELSE "ok"

\* hide_file: the package [filename_length][filename][data_length][data]
hidden_package(filename_bytes, hidden_data) ==
    PackU32(Len(filename_bytes)) \o filename_bytes
        \o PackU32(Len(hidden_data)) \o hidden_data

\* eof_position with find in the place of rfind
eof_position_first(pdf_content) == Find(pdf_content, eof_marker)

\* hide_file: the offset of the last %%EOF
eof_position(pdf_content) == Rfind(pdf_content, eof_marker)

\* modified_pdf with MARKER written a second time in the place of MARKER_END
modified_pdf_start_twice(pdf_content, package) ==
    Prefix(pdf_content, eof_position(pdf_content) + Len(eof_marker))
        \o NEWLINE \o MARKER \o package \o MARKER \o NEWLINE

\* hide_file: the output buffer
modified_pdf(pdf_content, package) ==
    Prefix(pdf_content, eof_position(pdf_content) + Len(eof_marker))
        \o NEWLINE \o MARKER \o package \o MARKER_END \o NEWLINE

\* the Python class of each error the operations raise
ExceptionClass(err) ==
    CASE err = "NotFound" -> "FileNotFoundError"       \* validate_pdf, hide_file
      [] err = "IoError" -> "OSError"                  \* open, os.makedirs
      [] err = "ParseError" -> "struct.error"          \* or UnicodeDecodeError
      [] OTHER -> "ValueError"                         \* every raise ValueError

\* the classes that are Exception or derive from it
ExceptionSubclasses ==
    { "Exception", "OSError", "FileNotFoundError", "ValueError",
      "UnicodeDecodeError", "struct.error" }

\* a handler that is "except ValueError" and no more
Caught_ValueError(err) == ExceptionClass(err) = "ValueError"

\* "except Exception as e": whether the handler of an operation catches err
Caught(err) == ExceptionClass(err) \in ExceptionSubclasses

\* the result of a failed hide_file: nothing written; False is returned when
\* the handler catches the error, and the error leaves hide_file otherwise
HideFailed(fs, err) ==
    [ ret |-> FALSE, err |-> err, fs |-> fs, escaped |-> ~Caught(err) ]

\* hide_file(pdf_path, file_to_hide, output_path): the value returned, the
\* error caught, and the files afterwards
hide_file(fs, dirs, pdf_path, file_to_hide, output_path) ==
    LET valid == validate_pdf(fs, dirs, pdf_path)
        format == validate_file_format(file_to_hide)
        file_key == Key(dirs, file_to_hide)
        output_key == Key(dirs, output_path)
        pdf_content == fs[Key(dirs, pdf_path)]
        hidden_data == fs[file_key]
        original_filename == Basename(file_to_hide)
        filename_bytes == Utf8Encode(original_filename)
    IN  IF valid # "ok" THEN HideFailed(fs, valid)
        ELSE IF format # "ok" THEN HideFailed(fs, format)
        ELSE IF file_key \notin DOMAIN fs /\ file_key \notin dirs
        THEN HideFailed(fs, "NotFound")
        ELSE IF file_key \notin DOMAIN fs THEN HideFailed(fs, "IoError")
        ELSE IF eof_position(pdf_content) = -1 THEN HideFailed(fs, "InvalidPdf")
        ELSE IF ~CanOpenWrite(dirs, output_key) THEN HideFailed(fs, "IoError")
        ELSE [ ret |-> TRUE, err |-> "none", escaped |-> FALSE,
               fs |-> WriteFile(fs, output_key,
                        modified_pdf(pdf_content,
                                     hidden_package(filename_bytes, hidden_data))) ]

\* the test of one marker only
markers_missing_start_only(start_pos, end_pos) == start_pos = -1

\* extract_file, get_hidden_file_info: "start_pos == -1 or end_pos == -1"
markers_missing(start_pos, end_pos) == start_pos = -1 \/ end_pos = -1

\* the result of a failed extract_file: nothing written, no directory made
ExtractFailed(fs, dirs, err) ==
    [ ret |-> << >>, ok |-> FALSE, err |-> err, fs |-> fs, dirs |-> dirs,
      filename |-> << >>, data |-> << >>, escaped |-> ~Caught(err) ]

\* free_path without the loop: the first candidate is taken as it is
free_path_unchecked(fs, dirs, output_dir, base_name, ext, output_path, counter) ==
    output_path

RECURSIVE free_path_suffix_last(_, _, _, _, _, _, _)
\* free_path with the counter written after the extension
free_path_suffix_last(fs, dirs, output_dir, base_name, ext, output_path, counter) ==
    IF ~PathExists(fs, dirs, output_path) THEN output_path
    ELSE free_path_suffix_last(fs, dirs, output_dir, base_name, ext,
                   Join(output_dir, base_name \o ext \o << 95 >> \o Decimal(counter)),
                   counter + 1)

RECURSIVE free_path(_, _, _, _, _, _, _)
\* extract_file: the loop "while os.path.exists(output_path)"
free_path(fs, dirs, output_dir, base_name, ext, output_path, counter) ==
    IF ~PathExists(fs, dirs, output_path) THEN output_path
    ELSE free_path(fs, dirs, output_dir, base_name, ext,
                   Join(output_dir, base_name \o << 95 >> \o Decimal(counter) \o ext),
                   counter + 1)

\* extract_file: the data bytes read from the package
read_hidden_data(package, data_start_pos, data_length) ==
    Slice(package, data_start_pos, data_start_pos + data_length)

\* extract_file: "Validate extracted data length"
length_mismatch(hidden_data, data_length) == Len(hidden_data) # data_length

\* extract_file: everything after the package has been parsed and checked
write_extracted(fs, dirs, output_dir, filename, hidden_data) ==
    IF Makedirs(fs, dirs, output_dir) = { << >> }
    THEN ExtractFailed(fs, dirs, "IoError")
    ELSE
      LET newdirs == Makedirs(fs, dirs, output_dir)
          parts == Splitext(filename)
          output_path == free_path(fs, newdirs, output_dir, parts[1], parts[2],
                                   Join(output_dir, filename), 1)
          output_key == Key(newdirs, output_path)
      IN  IF ~CanOpenWrite(newdirs, output_key)
          THEN [ ExtractFailed(fs, dirs, "IoError") EXCEPT !.dirs = newdirs ]
          ELSE [ ret |-> output_path, ok |-> TRUE, err |-> "none", escaped |-> FALSE,
                 fs |-> WriteFile(fs, output_key, hidden_data),
                 dirs |-> newdirs, filename |-> filename, data |-> hidden_data ]

\* extract_file up to "Validate extracted data length": the error raised, or
\* the filename and the data read from the package
read_package(fs, dirs, pdf_path) ==
    LET valid == validate_pdf(fs, dirs, pdf_path)
        pdf_content == fs[Key(dirs, pdf_path)]
        start_pos == Find(pdf_content, MARKER)
        end_pos == Find(pdf_content, MARKER_END)
        package == Slice(pdf_content, start_pos + Len(MARKER), end_pos)
        filename_length == UnpackU32(Slice(package, 0, 4))
        filename_bytes == Slice(package, 4, 4 + filename_length)
        data_length_pos == 4 + filename_length
        data_length == UnpackU32(Slice(package, data_length_pos, data_length_pos + 4))
        data_start_pos == data_length_pos + 4
        hidden_data == read_hidden_data(package, data_start_pos, data_length)
        failed(err) == [ err |-> err, filename |-> << >>, data |-> << >> ]
    IN  IF valid # "ok" THEN failed(valid)
        ELSE IF markers_missing(start_pos, end_pos) THEN failed("NoHiddenData")
        ELSE IF Len(package) < 4 THEN failed("ParseError")
        ELSE IF ~Utf8Valid(filename_bytes) THEN failed("ParseError")
        ELSE IF Len(package) < data_length_pos + 4 THEN failed("ParseError")
        ELSE IF length_mismatch(hidden_data, data_length) THEN failed("DataCorruption")
        ELSE [ err |-> "none", filename |-> Utf8Decode(filename_bytes),
               data |-> hidden_data ]

\* extract_file with os.makedirs(output_dir) run before the PDF is read
extract_file_makedirs_first(fs, dirs, pdf_path, output_dir) ==
    LET package == read_package(fs, dirs, pdf_path)
        newdirs == Makedirs(fs, dirs, output_dir)
    IN  IF newdirs = { << >> } THEN ExtractFailed(fs, dirs, "IoError")
        ELSE IF package.err # "none"
        THEN [ ExtractFailed(fs, dirs, package.err) EXCEPT !.dirs = newdirs ]
        ELSE write_extracted(fs, dirs, output_dir, package.filename, package.data)

\* extract_file(pdf_path, output_dir): the path returned (ok) or None, the
\* error caught, and the files and directories afterwards
\* (the one element of a set of one element: the package is read once)
extract_file(fs, dirs, pdf_path, output_dir) ==
    CHOOSE r \in
        { IF package.err # "none" THEN ExtractFailed(fs, dirs, package.err)
          ELSE write_extracted(fs, dirs, output_dir, package.filename, package.data) :
            package \in { read_package(fs, dirs, pdf_path) } } : TRUE

\* a test that finds no marker in any file
both_markers_never(pdf_content) == FALSE

\* check_hidden_data: "MARKER in pdf_content and MARKER_END in pdf_content"
both_markers(pdf_content) ==
    Contains(pdf_content, MARKER) /\ Contains(pdf_content, MARKER_END)

\* a check_hidden_data that remembers: True once any file holds both markers
check_hidden_data_any_file(fs, dirs, pdf_path) ==
    [ ret |-> \E k \in DOMAIN fs : both_markers(fs[k]), err |-> "none",
      escaped |-> FALSE ]

\* check_hidden_data(pdf_path): the value returned and the error caught
check_hidden_data(fs, dirs, pdf_path) ==
    LET valid == validate_pdf(fs, dirs, pdf_path)
    IN  IF valid # "ok"
        THEN [ ret |-> FALSE, err |-> valid, escaped |-> ~Caught(valid) ]
        ELSE [ ret |-> both_markers(fs[Key(dirs, pdf_path)]), err |-> "none",
               escaped |-> FALSE ]

\* the result of get_hidden_file_info when it returns None
NoInfo(err) ==
    [ found |-> FALSE, err |-> err, filename |-> << >>, size |-> 0,
      escaped |-> err # "none" /\ ~Caught(err) ]

\* get_hidden_file_info(pdf_path): (filename, data_length) or None, and the
\* error caught
get_hidden_file_info(fs, dirs, pdf_path) ==
    LET valid == validate_pdf(fs, dirs, pdf_path)
        pdf_content == fs[Key(dirs, pdf_path)]
        start_pos == Find(pdf_content, MARKER)
        end_pos == Find(pdf_content, MARKER_END)
        package == Slice(pdf_content, start_pos + Len(MARKER), end_pos)
        filename_length == UnpackU32(Slice(package, 0, 4))
        filename_bytes == Slice(package, 4, 4 + filename_length)
        data_length_pos == 4 + filename_length
        data_length == UnpackU32(Slice(package, data_length_pos, data_length_pos + 4))
    IN  IF valid # "ok" THEN NoInfo(valid)
        ELSE IF markers_missing(start_pos, end_pos) THEN NoInfo("none")
        ELSE IF Len(package) < 4 THEN NoInfo("ParseError")
        ELSE IF ~Utf8Valid(filename_bytes) THEN NoInfo("ParseError")
        ELSE IF Len(package) < data_length_pos + 4 THEN NoInfo("ParseError")
        ELSE [ found |-> TRUE, err |-> "none", escaped |-> FALSE,
               filename |-> Utf8Decode(filename_bytes), size |-> data_length ]

(***************************************************************************)
(* cli.py: the commands extract and check.  A command is the exit code it   *)
(* returns, the calls it makes to the codec, in order, and what its last    *)
(* call did.  An error that leaves a command ends the process with code 1.  *)
(***************************************************************************)
\* a command that returns 0 whatever extract_file returned
exit_code_zero(extracted) == 0

\* extract_command: "if extracted_path: ... return 0 / else: ... return 1"
exit_code(extracted) == IF extracted THEN 0 ELSE 1

\* the exit code and the calls of a command, with the result r of extract_file
CliResult(exit, calls, escaped, r) ==
    [ exit |-> exit, calls |-> calls, escaped |-> escaped,
      ret |-> r.ret, ok |-> r.ok, err |-> r.err, fs |-> r.fs, dirs |-> r.dirs,
      filename |-> r.filename, data |-> r.data ]

\* extract_command(args), args.pdf and args.output
extract_command(fs, dirs, pdf, output) ==
    LET detected == check_hidden_data(fs, dirs, pdf)
        info == get_hidden_file_info(fs, dirs, pdf)
    IN  IF detected.escaped \/ ~detected.ret
        THEN CliResult(1, << "detect" >>, detected.escaped,
                       ExtractFailed(fs, dirs, detected.err))
        ELSE IF info.escaped
        THEN CliResult(1, << "detect", "describe" >>, TRUE,
                       ExtractFailed(fs, dirs, info.err))
        ELSE CHOOSE r \in
                 { CliResult(IF extracted.escaped THEN 1 ELSE exit_code(extracted.ok),
                             << "detect", "describe", "extract" >>,
                             extracted.escaped, extracted) :
                     extracted \in { extract_file(fs, dirs, pdf, output) } } : TRUE

\* check_command(args), args.pdf: its handler returns 1 for an error that
\* leaves the codec
check_command(fs, dirs, pdf) ==
    LET detected == check_hidden_data(fs, dirs, pdf)
        info == get_hidden_file_info(fs, dirs, pdf)
    IN  IF detected.escaped
        THEN [ exit |-> 1, calls |-> << "detect" >>, found |-> FALSE,
               err |-> detected.err ]
        ELSE IF ~detected.ret
        THEN [ exit |-> 0, calls |-> << "detect" >>, found |-> FALSE,
               err |-> detected.err ]
        ELSE [ exit |-> IF info.escaped THEN 1 ELSE 0,
               calls |-> << "detect", "describe" >>, found |-> info.found,
               err |-> info.err ]

(***************************************************************************)
(* The files of the model.                                                 *)
(***************************************************************************)
\* "c.pdf", "o.pdf": the carrier and the output of hide_file
CarrierPath == << 99, 46, 112, 100, 102 >>
OutputPath == << 111, 46, 112, 100, 102 >>
PdfPaths == { CarrierPath, OutputPath }

\* "a.txt": the payload; "b.bin": a file of an unsupported format
PayloadPath == << 97, 46, 116, 120, 116 >>
OtherPath == << 98, 46, 98, 105, 110 >>
FilePaths == { PayloadPath, OtherPath }

\* "d": a directory for extract_file, missing at the start; the other one is
\* the working directory, which holds the carrier and the payload
OutputDir == << 100 >>
OutputDirs == { OutputDir, Cwd }

\* k bytes 'h'
Filler(k) == [ i \in 1..k |-> 104 ]

\* a PDF with a hand-made package after its %%EOF: the name, the declared
\* data_length and the data bytes are free
Crafted(filename_bytes, data_length, data) ==
    PDF_HEADER \o eof_marker \o NEWLINE \o MARKER
        \o PackU32(Len(filename_bytes)) \o filename_bytes
        \o PackU32(data_length) \o data \o MARKER_END \o NEWLINE

\* packages named a.txt that declare one data byte and hold none, one, two;
\* and a package that names the carrier itself
CraftedCarriers ==
    { Crafted(Utf8Encode(PayloadPath), 1, Filler(k)) : k \in { 0, 1, 2 } }
      \cup { Crafted(Utf8Encode(CarrierPath), 1, Filler(1)) }

\* carriers that begin with %PDF-
PdfCarriers ==
    { PDF_HEADER,                                           \* no %%EOF
      PDF_HEADER \o eof_marker,
      PDF_HEADER \o eof_marker \o NEWLINE \o eof_marker \o NEWLINE,  \* two %%EOF, a tail
      PDF_HEADER \o MARKER \o eof_marker,                   \* a stray START
      PDF_HEADER \o MARKER_END \o MARKER \o eof_marker }    \* markers reversed
      \cup CraftedCarriers

\* files that do not begin with %PDF-
NonPdfCarriers ==
    { << >>, NEWLINE \o PDF_HEADER \o eof_marker \o MARKER \o MARKER_END }

Carriers == PdfCarriers \cup NonPdfCarriers

\* payloads: empty, plain, and holding the bytes of a marker or of %%EOF
Payloads == { << >>, Filler(2), MARKER_END \o Filler(1), eof_marker }

\* What a caller may pass beyond the files above: hand-made packages and odd
\* arguments.
\* "e.txt": a file extract_file may find in its way
VictimPath == << 101, 46, 116, 120, 116 >>

\* the names a hand-made package carries
EdgeNames ==
    { VictimPath,                                           \* "e.txt"
      << 46, 46, 47, 101, 46, 116, 120, 116 >>,             \* "../e.txt"
      << 47, 101, 46, 116, 120, 116 >>,                     \* "/e.txt"
      << 115, 47, 101, 46, 116, 120, 116 >>,                \* "s/e.txt"
      << 255 >>,                                            \* not UTF-8
      << >> }                                               \* no name at all

\* carriers with a hand-made package, with a package cut after two bytes of
\* its name, with the markers reversed, with one marker, with none, and a
\* file that is not a PDF
EdgeCarriers ==
    { Crafted(n, 1, Filler(1)) : n \in EdgeNames }
      \cup { PDF_HEADER \o eof_marker \o NEWLINE \o MARKER \o PackU32(5)
               \o << 97, 46 >> \o MARKER_END \o NEWLINE,
             PDF_HEADER \o MARKER_END \o MARKER \o eof_marker,
             PDF_HEADER \o MARKER \o eof_marker,
             PDF_HEADER \o MARKER_END \o eof_marker,
             PDF_HEADER \o eof_marker,
             NEWLINE \o PDF_HEADER \o eof_marker \o MARKER \o MARKER_END }

\* payload paths: "X.TXT", "a.tar.txt", ".txt", "..txt", "a", "a." and "d.txt/a"
UpperPath == << 88, 46, 84, 88, 84 >>
TwoDotsPath == << 97, 46, 116, 97, 114, 46, 116, 120, 116 >>
DotOnlyPath == << 46, 116, 120, 116 >>
EdgeFilePaths ==
    { PayloadPath, OtherPath, UpperPath, TwoDotsPath, DotOnlyPath,
      << 46, 46, 116, 120, 116 >>,
      << 97 >>, << 97, 46 >>, << 100, 46, 116, 120, 116, 47, 97 >> }

\* PDF paths: the carrier, "m.pdf" that does not exist, and a directory
MissingPath == << 109, 46, 112, 100, 102 >>
EdgePdfPaths == { CarrierPath, MissingPath, Cwd }

\* output paths: "o.pdf", a directory, and "x/o.pdf" whose directory is missing
EdgeOutputPaths == { OutputPath, Cwd, << 120, 47, 111, 46, 112, 100, 102 >> }

\* output directories: "d", and "a.txt", which is a regular file
EdgeOutputDirs == { OutputDir, PayloadPath }

\* the files at the start: the carrier may be missing, and so may e.txt
EdgeFiles(carrier, victim) ==
    [ q \in (IF carrier # << >> THEN { CarrierPath } ELSE {})
            \cup (IF victim THEN { VictimPath } ELSE {})
            \cup { PayloadPath, OtherPath }
      |-> IF q = CarrierPath THEN carrier[1]
          ELSE IF q = VictimPath THEN Filler(3)
          ELSE Filler(2) ]

\* the files that are there before any extract_file
InitialPaths == PdfPaths \cup FilePaths \cup EdgeFilePaths \cup { VictimPath }

\* zero or one element of S, as a sequence
Optional(S) == { << >> } \cup { << x >> : x \in S }

\* the files at the start: the carrier and the payload may be missing
InitialFiles(carrier, payload) ==
    [ q \in (IF carrier # << >> THEN { CarrierPath } ELSE {})
            \cup (IF payload # << >> THEN { PayloadPath } ELSE {})
            \cup { OtherPath }
      |-> IF q = CarrierPath THEN carrier[1]
          ELSE IF q = PayloadPath THEN payload[1]
          ELSE Filler(1) ]

(***************************************************************************)
(* The state.                                                              *)
(***************************************************************************)
VARIABLES
    fs,     \* key of each regular file |-> its bytes
    dirs,   \* the keys of the directories
    last,   \* the last operation: its arguments, its result, the files before it
    emb,    \* history: which PDF is the output of which hide_file (carrier C,
            \* payload P, name N), and how many data bytes a cut left of it (cut)
    run     \* each extract_file that runs step by step: where it is (pc) and
            \* its local variables

vars == << fs, dirs, last, emb, run >>

\* the extract_file calls that may run step by step
Procs == { 1, 2 }

\* an extract_file that has not been called
Idle ==
    [ pc |-> "idle", pdf_path |-> << >>, output_dir |-> << >>, filename |-> << >>,
      hidden_data |-> << >>, base_name |-> << >>, ext |-> << >>,
      output_path |-> << >>, counter |-> 0, ret |-> << >>, err |-> "none" ]

NoEmb == [ made |-> FALSE, C |-> << >>, P |-> << >>, N |-> << >>, cut |-> -1 ]

\* the record of an operation; the fields an operation does not set are empty
Op(op, pdf, file, out, ok, err) ==
    [ op |-> op, pdf |-> pdf, file |-> file, out |-> out, ok |-> ok, err |-> err,
      ret |-> << >>, filename |-> << >>, data |-> << >>, size |-> 0,
      escaped |-> FALSE, exit |-> -1, calls |-> << >>, fs0 |-> fs, dirs0 |-> dirs ]

Init ==
    /\ \E carrier \in Optional(Carriers), payload \in Optional(Payloads) :
          fs = InitialFiles(carrier, payload)
    /\ dirs = { Cwd }
    /\ last = [ Op("init", << >>, << >>, << >>, TRUE, "none") EXCEPT !.fs0 = << >> ]
    /\ emb = [ q \in PdfPaths |-> NoEmb ]
    /\ run = [ self \in Procs |-> Idle ]

\* stego.hide_file(pdf_path, file_to_hide, output_path)
Hide(pdf_path, file_to_hide, output_path) ==
    \E r \in { hide_file(fs, dirs, pdf_path, file_to_hide, output_path) } :
        /\ pdf_path \in DOMAIN fs => Len(fs[pdf_path]) <= MaxCarrierLen
        /\ fs' = r.fs
        /\ dirs' = dirs
        /\ last' = [ Op("hide", pdf_path, file_to_hide, output_path, r.ret, r.err)
                       EXCEPT !.escaped = r.escaped ]
        /\ emb' = IF r.ret
                  THEN [ emb EXCEPT ![output_path] =
                           [ made |-> TRUE, C |-> fs[pdf_path], P |-> fs[file_to_hide],
                             N |-> Basename(file_to_hide), cut |-> -1 ] ]
                  ELSE emb
        /\ UNCHANGED run

\* stego.extract_file(pdf_path, output_dir)
Extract(pdf_path, output_dir) ==
    \E r \in { extract_file(fs, dirs, pdf_path, output_dir) } :
        /\ Cardinality(DOMAIN fs \ InitialPaths) < MaxExtracted
        /\ fs' = r.fs
        /\ dirs' = r.dirs
        /\ last' = [ Op("extract", pdf_path, << >>, output_dir, r.ok, r.err)
                       EXCEPT !.ret = r.ret, !.filename = r.filename, !.data = r.data,
                              !.escaped = r.escaped ]
        /\ emb' = [ q \in PdfPaths |->
                      IF r.ok /\ Key(r.dirs, r.ret) = q THEN NoEmb ELSE emb[q] ]
        /\ UNCHANGED run

\* stego.check_hidden_data(pdf_path)
Detect(pdf_path) ==
    \E r \in { check_hidden_data(fs, dirs, pdf_path) } :
        /\ last' = [ Op("detect", pdf_path, << >>, << >>, r.ret, r.err)
                       EXCEPT !.escaped = r.escaped ]
        /\ UNCHANGED << fs, dirs, emb, run >>

\* stego.get_hidden_file_info(pdf_path)
Describe(pdf_path) ==
    \E r \in { get_hidden_file_info(fs, dirs, pdf_path) } :
        /\ last' = [ Op("describe", pdf_path, << >>, << >>, r.found, r.err)
                       EXCEPT !.filename = r.filename, !.size = r.size,
                              !.escaped = r.escaped ]
        /\ UNCHANGED << fs, dirs, emb, run >>

Next ==
    \/ \E p \in PdfPaths, f \in FilePaths : \E o \in { OutputPath, p } : Hide(p, f, o)
    \/ \E p \in PdfPaths, d \in OutputDirs : Extract(p, d)
    \/ \E p \in PdfPaths : Detect(p)
    \/ \E p \in PdfPaths : Describe(p)

Spec == Init /\ [][Next]_vars

(***************************************************************************)
(* Truncation: the environment cuts the output of hide_file short.         *)
(***************************************************************************)
\* the offset of the first data byte in the output of the hide_file e records
DataStart(e, bytes) == Len(bytes) - Len(NEWLINE) - Len(MARKER_END) - Len(e.P)

\* o.pdf, the output of a hide_file, is cut to its first t bytes, t from the
\* offset of the first data byte to the offset that ends the data
Truncate(t) ==
    /\ OutputPath \in DOMAIN fs
    /\ emb[OutputPath].made /\ emb[OutputPath].cut = -1
    /\ t >= DataStart(emb[OutputPath], fs[OutputPath])
    /\ t <= DataStart(emb[OutputPath], fs[OutputPath]) + Len(emb[OutputPath].P)
    /\ fs' = WriteFile(fs, OutputPath, Prefix(fs[OutputPath], t))
    /\ dirs' = dirs
    /\ last' = [ Op("truncate", OutputPath, << >>, << >>, TRUE, "none") EXCEPT !.size = t ]
    /\ emb' = [ emb EXCEPT ![OutputPath].cut = t - DataStart(emb[OutputPath], fs[OutputPath]) ]
    /\ UNCHANGED run

\* hide into o.pdf, cut o.pdf, then inspect and extract it
NextCut ==
    \/ emb[OutputPath].cut = -1 /\ Hide(CarrierPath, PayloadPath, OutputPath)
    \/ \E t \in 0..MaxCarrierLen + MaxCarrierLen : Truncate(t)
    \/ Extract(OutputPath, OutputDir)
    \/ Detect(OutputPath)
    \/ Describe(OutputPath)

SpecCut == Init /\ [][NextCut]_vars

(***************************************************************************)
(* Hand-made packages and odd arguments.                                   *)
(***************************************************************************)
InitEdge ==
    /\ \E carrier \in Optional(EdgeCarriers), victim \in BOOLEAN :
          fs = EdgeFiles(carrier, victim)
    /\ dirs = { Cwd, Root }
    /\ last = [ Op("init", << >>, << >>, << >>, TRUE, "none") EXCEPT !.fs0 = << >> ]
    /\ emb = [ q \in PdfPaths |-> NoEmb ]
    /\ run = [ self \in Procs |-> Idle ]

\* PDFSteganography.validate_file_format(file_path), called on its own: it
\* returns True or raises
ValidateFormat(file_path) ==
    \E r \in { validate_file_format(file_path) } :
        /\ last' = Op("validate", << >>, file_path, << >>, r = "ok", r)
        /\ UNCHANGED << fs, dirs, emb, run >>

\* python cli.py extract pdf output
CliExtract(pdf, output) ==
    \E r \in { extract_command(fs, dirs, pdf, output) } :
        /\ Cardinality(DOMAIN fs \ InitialPaths) < MaxExtracted
        /\ fs' = r.fs
        /\ dirs' = r.dirs
        /\ last' = [ Op("cli_extract", pdf, << >>, output, r.ok, r.err)
                       EXCEPT !.ret = r.ret, !.filename = r.filename, !.data = r.data,
                              !.escaped = r.escaped, !.exit = r.exit, !.calls = r.calls ]
        /\ emb' = [ q \in PdfPaths |->
                      IF r.ok /\ Key(r.dirs, r.ret) = q THEN NoEmb ELSE emb[q] ]
        /\ UNCHANGED run

\* python cli.py check pdf
CliCheck(pdf) ==
    \E r \in { check_command(fs, dirs, pdf) } :
        /\ last' = [ Op("cli_check", pdf, << >>, << >>, r.found, r.err)
                       EXCEPT !.exit = r.exit, !.calls = r.calls ]
        /\ UNCHANGED << fs, dirs, emb, run >>

NextEdge ==
    \/ \E o \in EdgeOutputPaths : Hide(CarrierPath, PayloadPath, o)
    \/ \E p \in EdgePdfPaths, d \in EdgeOutputDirs : CliExtract(p, d)
    \/ \E p \in EdgePdfPaths : CliCheck(p)
    \/ \E p \in EdgePdfPaths, d \in EdgeOutputDirs : Extract(p, d)
    \/ \E p \in EdgePdfPaths : Detect(p)
    \/ \E p \in EdgePdfPaths : Describe(p)
    \/ \E f \in EdgeFilePaths : ValidateFormat(f)

SpecEdge == InitEdge /\ [][NextEdge]_vars

(***************************************************************************)
(* hide_file again and again, each time into the output of the time before. *)
(***************************************************************************)
\* carriers that hold no marker
CleanCarriers == { PDF_HEADER \o eof_marker, PDF_HEADER \o eof_marker \o NEWLINE }

\* the contents of a.txt: none of them holds a marker, two of them hold %%EOF
ChainPayloads == { << >>, Filler(2), eof_marker, eof_marker \o Filler(1) }

\* the files to hide: a.txt, and c.pdf, a .pdf payload
ChainFilePaths == { PayloadPath, CarrierPath }

InitChain ==
    /\ \E carrier \in CleanCarriers, payload \in ChainPayloads :
          fs = InitialFiles(<< carrier >>, << payload >>)
    /\ dirs = { Cwd }
    /\ last = [ Op("init", << >>, << >>, << >>, TRUE, "none") EXCEPT !.fs0 = << >> ]
    /\ emb = [ q \in PdfPaths |-> NoEmb ]
    /\ run = [ self \in Procs |-> Idle ]

\* hide into o.pdf, hide into o.pdf again with o.pdf as the carrier, inspect
\* and extract o.pdf
NextChain ==
    \/ \E f \in ChainFilePaths : Hide(CarrierPath, f, OutputPath)
    \/ \E f \in ChainFilePaths : Hide(OutputPath, f, OutputPath)
    \/ Extract(OutputPath, OutputDir)
    \/ Detect(OutputPath)
    \/ Describe(OutputPath)

SpecChain == InitChain /\ [][NextChain]_vars

(***************************************************************************)
(* extract_file step by step: the call up to the loop, each test of the    *)
(* loop "while os.path.exists(output_path)", and the write.                *)
(***************************************************************************)
\* a counter that stays where it is
next_counter_stuck(counter) == counter

\* extract_file: "counter += 1"
next_counter(counter) == counter + 1

\* extract_file: os.path.join(output_dir, f"{base_name}_{counter}{ext}")
candidate_path(output_dir, base_name, ext, counter) ==
    Join(output_dir, base_name \o << 95 >> \o Decimal(counter) \o ext)

\* extract_file from its call to "base_name, ext = os.path.splitext(filename)"
ExtractBegin(self, pdf_path, output_dir) ==
    /\ run[self].pc = "idle"
    /\ LET package == read_package(fs, dirs, pdf_path)
           newdirs == Makedirs(fs, dirs, output_dir)
           failed == package.err # "none" \/ newdirs = { << >> }
       IN  /\ run' = [ run EXCEPT ![self] =
                         IF failed
                         THEN [ Idle EXCEPT !.pc = "done", !.pdf_path = pdf_path,
                                            !.output_dir = output_dir,
                                            !.err = IF package.err # "none"
                                                    THEN package.err ELSE "IoError" ]
                         ELSE [ pc |-> "test", pdf_path |-> pdf_path,
                                output_dir |-> output_dir,
                                filename |-> package.filename,
                                hidden_data |-> package.data,
                                base_name |-> Splitext(package.filename)[1],
                                ext |-> Splitext(package.filename)[2],
                                output_path |-> Join(output_dir, package.filename),
                                counter |-> 1, ret |-> << >>, err |-> "none" ] ]
           /\ dirs' = IF failed THEN dirs ELSE newdirs
    /\ UNCHANGED << fs, last, emb >>

\* the loop: output_path exists, the next candidate is computed
LoopIncrement(self) ==
    /\ run[self].pc = "test"
    /\ PathExists(fs, dirs, run[self].output_path)
    /\ run' = [ run EXCEPT
                  ![self].output_path =
                      candidate_path(run[self].output_dir, run[self].base_name,
                                     run[self].ext, run[self].counter),
                  ![self].counter = next_counter(run[self].counter) ]
    /\ UNCHANGED << fs, dirs, last, emb >>

\* the loop: output_path does not exist, the loop is left
LoopExit(self) ==
    /\ run[self].pc = "test"
    /\ ~PathExists(fs, dirs, run[self].output_path)
    /\ run' = [ run EXCEPT ![self].pc = "write" ]
    /\ UNCHANGED << fs, dirs, last, emb >>

\* extract_file from "with open(output_path, 'wb')" to its return
ExtractWrite(self) ==
    /\ run[self].pc = "write"
    /\ IF CanOpenWrite(dirs, Key(dirs, run[self].output_path))
       THEN /\ fs' = WriteFile(fs, Key(dirs, run[self].output_path), run[self].hidden_data)
            /\ run' = [ run EXCEPT ![self].pc = "done",
                                   ![self].ret = run[self].output_path ]
       ELSE /\ fs' = fs
            /\ run' = [ run EXCEPT ![self].pc = "done", ![self].err = "IoError" ]
    /\ UNCHANGED << dirs, last, emb >>

\* the names of the packages: "a.txt" and "a", which has no extension
LoopNames == { PayloadPath, << 97 >> }

\* the k-th path of the loop for name in d
Colliding(name, k) ==
    IF k = 0 THEN Join(OutputDir, name)
    ELSE candidate_path(OutputDir, Splitext(name)[1], Splitext(name)[2], k)

\* d holds any of the first MaxColliding paths of the loop, and nothing else
InitLoop ==
    /\ \E name \in LoopNames, present \in SUBSET (0..(MaxColliding - 1)) :
          fs = [ q \in { CarrierPath }
                        \cup { Key({ Cwd, OutputDir }, Colliding(name, k)) : k \in present }
                 |-> IF q = CarrierPath THEN Crafted(Utf8Encode(name), 1, Filler(1))
                     ELSE Filler(2) ]
    /\ dirs = { Cwd, OutputDir }
    /\ last = [ Op("init", << >>, << >>, << >>, TRUE, "none") EXCEPT !.fs0 = << >> ]
    /\ emb = [ q \in PdfPaths |-> NoEmb ]
    /\ run = [ self \in Procs |-> Idle ]

\* one extract_file of c.pdf into d, alone
NextLoop ==
    \/ ExtractBegin(1, CarrierPath, OutputDir)
    \/ LoopIncrement(1)
    \/ LoopExit(1)
    \/ ExtractWrite(1)

\* the steps of the loop and the write: the statements of one sequential call
LoopSteps ==
    \/ LoopIncrement(1)
    \/ LoopExit(1)
    \/ ExtractWrite(1)

\* a call that has reached the loop goes on: it takes its next step
SpecLoop == InitLoop /\ [][NextLoop]_vars /\ WF_vars(LoopSteps)

\* two extract_file calls of c.pdf into d at once: each step of one call may
\* come between any two steps of the other
NextRace ==
    \E self \in Procs :
        \/ ExtractBegin(self, CarrierPath, OutputDir)
        \/ LoopIncrement(self)
        \/ LoopExit(self)
        \/ ExtractWrite(self)

SpecRace == InitLoop /\ [][NextRace]_vars

(***************************************************************************)
(* The vocabulary of the properties.  These definitions describe bytes and *)
(* paths directly; they do not go through the operators of the codec.      *)
(***************************************************************************)
\* b starts with %PDF-
HasPdfHeader(b) == Len(b) >= Len(PDF_HEADER) /\ \A k \in 1..Len(PDF_HEADER) : b[k] = PDF_HEADER[k]

\* m occurs somewhere in b
OccursIn(b, m) == \E i \in 0..Len(b) : OccursAt(b, m, i)

\* i is the offset of the last occurrence of m in b
LastAt(b, m, i) == OccursAt(b, m, i) /\ \A j \in (i + 1)..Len(b) : ~OccursAt(b, m, j)

\* i is the offset of the first occurrence of m in b
FirstAt(b, m, i) == OccursAt(b, m, i) /\ \A j \in 0..(i - 1) : ~OccursAt(b, m, j)

\* the path p ends with the characters of e, whatever their case
EndsWith(p, e) ==
    /\ Len(p) >= Len(e)
    /\ \A k \in 1..Len(e) : Lower(<< p[Len(p) - Len(e) + k] >>) = << e[k] >>

\* the extension of p is one of SUPPORTED_FORMATS
AllowedName(p) == \E e \in SUPPORTED_FORMATS : EndsWith(p, e)

\* b is the four bytes of n, least significant byte first
IsU32(b, n) ==
    /\ Len(b) = 4
    /\ \A k \in 1..4 : b[k] \in 0..255
    /\ b[1] + 256 * b[2] + 65536 * b[3] + 16777216 * b[4] = n

\* the k-th path extract_file tries for filename in output_dir: the name
\* itself, then the name with _1, _2, ... before its extension
Candidate(output_dir, filename, k) ==
    IF k = 0 THEN Join(output_dir, filename)
    ELSE Join(output_dir,
              Splitext(filename)[1] \o << 95 >> \o Decimal(k) \o Splitext(filename)[2])

\* the files the operation `last` records left as they were
Untouched(paths) ==
    \A k \in paths : k \in DOMAIN last.fs0 => k \in DOMAIN fs /\ fs[k] = last.fs0[k]

\* the last operation wrote no file and made no directory
NothingWritten == fs = last.fs0 /\ dirs = last.dirs0

\* the PDF the last operation read is the whole output of a hide_file
OnEmbedOutput ==
    /\ last.pdf \in PdfPaths
    /\ emb[last.pdf].made
    /\ emb[last.pdf].cut = -1

\* the carrier and the payload a hide_file was given, before it ran
CarrierValid ==
    /\ last.pdf \in DOMAIN last.fs0
    /\ HasPdfHeader(last.fs0[last.pdf])
    /\ OccursIn(last.fs0[last.pdf], eof_marker)

PayloadValid == last.file \in DOMAIN last.fs0 /\ AllowedName(last.file)

\* the number of offsets of b at which m occurs
HowMany(b, m) == Cardinality({ i \in 0..Len(b) : OccursAt(b, m, i) })

\* the value of the four bytes b, least significant byte first
U32(b) == b[1] + 256 * b[2] + 65536 * b[3] + 16777216 * b[4]

\* the bytes between the end of the first START and the start of the first
\* END of b, for a b that holds both
PackageOf(b) ==
    LET s == CHOOSE i \in 0..Len(b) : FirstAt(b, MARKER, i)
        e == CHOOSE i \in 0..Len(b) : FirstAt(b, MARKER_END, i)
    IN  Slice(b, s + Len(MARKER), e)

\* b holds both markers and the name_length, name and data_length fields of
\* its package are all there, the name being UTF-8
FieldsParse(b) ==
    /\ OccursIn(b, MARKER) /\ OccursIn(b, MARKER_END)
    /\ Len(PackageOf(b)) >= 8
    /\ Len(PackageOf(b)) >= 8 + U32(PackageOf(b))
    /\ Utf8Valid(Slice(PackageOf(b), 4, 4 + U32(PackageOf(b))))

\* the data_length field of a package whose fields parse
Declared(b) == U32(Slice(PackageOf(b), 4 + U32(PackageOf(b)), 8 + U32(PackageOf(b))))

\* the number of bytes between the data_length field and END
Available(b) == Len(PackageOf(b)) - 8 - U32(PackageOf(b))

(***************************************************************************)
(* The properties.                                                         *)
(***************************************************************************)
\* C1 (round trip): hide_file of a carrier that starts with %PDF- and holds
\* %%EOF and of an existing payload with an allowed name succeeds, and
\* extract_file of its output succeeds with a file that holds exactly the
\* payload and is named as the payload, or as the payload with a counter
\* before the extension -- whatever marker bytes carrier and payload hold.
C1_RoundTrip ==
    /\ (last.op = "hide" /\ CarrierValid /\ PayloadValid) => last.ok
    /\ (last.op = "extract" /\ OnEmbedOutput) =>
          /\ last.ok
          /\ last.filename = emb[last.pdf].N
          /\ last.data = emb[last.pdf].P
          /\ \E k \in 0..Cardinality(DOMAIN last.fs0) :
                last.ret = Candidate(last.out, emb[last.pdf].N, k)
          /\ Key(dirs, last.ret) \in DOMAIN fs
          /\ fs[Key(dirs, last.ret)] = emb[last.pdf].P

\* C2 (corruption sensitivity): extract_file of the output of a hide_file cut
\* strictly inside its data bytes fails with DataCorruption and with no other
\* error, and writes nothing.
C2_TruncationIsDataCorruption ==
    ( /\ last.op = "extract"
      /\ last.pdf = OutputPath
      /\ emb[OutputPath].made
      /\ emb[OutputPath].cut > 0
      /\ emb[OutputPath].cut < Len(emb[OutputPath].P) )
    => (~last.ok /\ last.err = "DataCorruption" /\ NothingWritten)

\* C3 (integrity check): on a valid carrier whose markers are found and whose
\* fields parse, extract_file succeeds only if exactly data_length bytes lie
\* between the data_length field and END, and fails with DataCorruption when
\* fewer or more bytes lie there.
C3_IntegrityCheck ==
    ( /\ last.op = "extract"
      /\ last.pdf \in DOMAIN last.fs0
      /\ HasPdfHeader(last.fs0[last.pdf])
      /\ FieldsParse(last.fs0[last.pdf]) )
    => /\ last.ok => Available(last.fs0[last.pdf]) = Declared(last.fs0[last.pdf])
       /\ Available(last.fs0[last.pdf]) # Declared(last.fs0[last.pdf])
             => (~last.ok /\ last.err = "DataCorruption")

C5_RejectionWithoutOutput ==
    (last.op = "hide" /\ ~(CarrierValid /\ PayloadValid))
    => (~last.ok /\ NothingWritten)

\* C5: a hide_file rejected for nothing but the extension of its payload
C5_Witness ==
    /\ last.op = "hide" /\ ~last.ok
    /\ CarrierValid
    /\ last.file \in DOMAIN last.fs0 /\ ~AllowedName(last.file)
    /\ last.out \notin DOMAIN fs

\* C6 (output layout): the file a successful hide_file writes is the carrier
\* up to and including its last %%EOF, a newline, START, the length of the
\* name in four little-endian bytes, the UTF-8 basename of the payload, the
\* length of the payload in four little-endian bytes, the payload, END and a
\* newline; nothing of the carrier after its last %%EOF is in it.
C6_OutputLayout ==
    (last.op = "hide" /\ last.ok) =>
        LET C    == last.fs0[last.pdf]
            P    == last.fs0[last.file]
            N    == Utf8Encode(Basename(last.file))
            out  == fs[Key(dirs, last.out)]
        IN  \E i \in 0..Len(C) :
                LET head == i + Len(eof_marker)
                    at   == head + Len(NEWLINE) + Len(MARKER)
                IN  /\ LastAt(C, eof_marker, i)
                    /\ Slice(out, 0, head) = Slice(C, 0, head)
                    /\ Slice(out, head, head + 1) = << 10 >>
                    /\ Slice(out, head + 1, at) = MARKER
                    /\ IsU32(Slice(out, at, at + 4), Len(N))
                    /\ Slice(out, at + 4, at + 4 + Len(N)) = N
                    /\ IsU32(Slice(out, at + 4 + Len(N), at + 8 + Len(N)), Len(P))
                    /\ Slice(out, at + 8 + Len(N), at + 8 + Len(N) + Len(P)) = P
                    /\ Slice(out, at + 8 + Len(N) + Len(P),
                                  at + 8 + Len(N) + Len(P) + Len(MARKER_END)) = MARKER_END
                    /\ Slice(out, at + 8 + Len(N) + Len(P) + Len(MARKER_END), Len(out)) = << 10 >>

\* C6: a hide_file has succeeded on a carrier with two %%EOF and bytes after
\* the last of them
C6_Witness ==
    /\ last.op = "hide" /\ last.ok
    /\ \E i, j \in 0..Len(last.fs0[last.pdf]) :
          /\ i < j
          /\ OccursAt(last.fs0[last.pdf], eof_marker, i)
          /\ LastAt(last.fs0[last.pdf], eof_marker, j)
          /\ j + Len(eof_marker) < Len(last.fs0[last.pdf])

\* C7 (describe after embed): get_hidden_file_info of the output of a
\* hide_file returns the name of the payload and the length of the payload.
C7_DescribeAfterEmbed ==
    (last.op = "describe" /\ OnEmbedOutput) =>
        /\ last.ok
        /\ last.filename = emb[last.pdf].N
        /\ last.size = Len(emb[last.pdf].P)

\* C8 (detect after embed): check_hidden_data of the output of a successful
\* hide_file returns True.
C8_DetectAfterEmbed ==
    (last.op = "detect" /\ OnEmbedOutput) => last.ok

\* C8: check_hidden_data has returned True for the output of a hide_file
\* whose carrier held no START and whose payload held no END
C8_Witness ==
    /\ last.op = "detect" /\ OnEmbedOutput /\ last.ok
    /\ ~OccursIn(emb[last.pdf].C, MARKER)
    /\ ~OccursIn(emb[last.pdf].P, MARKER_END)

\* C9 (detect characterisation): check_hidden_data returns True if and only
\* if the file exists, starts with %PDF- and holds START somewhere and END
\* somewhere, in any order; in every other case it returns False.
C9_DetectCharacterisation ==
    last.op = "detect" =>
        ( last.ok <=> /\ last.pdf \in DOMAIN fs
                      /\ HasPdfHeader(fs[last.pdf])
                      /\ OccursIn(fs[last.pdf], MARKER)
                      /\ OccursIn(fs[last.pdf], MARKER_END) )

\* C9: check_hidden_data has returned False for a file that holds both
\* markers and does not start with %PDF-
C9_Witness ==
    /\ last.op = "detect" /\ ~last.ok
    /\ last.pdf \in DOMAIN fs
    /\ ~HasPdfHeader(fs[last.pdf])
    /\ OccursIn(fs[last.pdf], MARKER) /\ OccursIn(fs[last.pdf], MARKER_END)

\* C10 (collision handling): a successful extract_file changes no file that
\* was there; it creates one file, at the first path that did not exist of
\* output_dir/name.ext, output_dir/name_1.ext, output_dir/name_2.ext, ...,
\* and that file holds the data extracted.
C10_CollisionHandling ==
    (last.op = "extract" /\ last.ok) =>
        /\ Untouched(DOMAIN last.fs0)
        /\ \E k \in 0..Cardinality(DOMAIN last.fs0) :
              /\ last.ret = Candidate(last.out, last.filename, k)
              /\ ~PathExists(last.fs0, dirs, last.ret)
              /\ \A j \in 0..(k - 1) :
                    PathExists(last.fs0, dirs, Candidate(last.out, last.filename, j))
        /\ DOMAIN fs = DOMAIN last.fs0 \cup { Key(dirs, last.ret) }
        /\ fs[Key(dirs, last.ret)] = last.data

\* C10: the second extract_file of a.txt into d has written d/a_1.txt beside
\* d/a.txt, both holding the same data
C10_Witness ==
    /\ last.op = "extract" /\ last.ok
    /\ last.ret = << 100, 47, 97, 95, 49, 46, 116, 120, 116 >>
    /\ << 100, 47, 97, 46, 116, 120, 116 >> \in DOMAIN fs
    /\ fs[<< 100, 47, 97, 46, 116, 120, 116 >>] = fs[<< 100, 47, 97, 95, 49, 46, 116, 120, 116 >>]

\* C11 (no error escapes): whatever the files and the arguments -- missing
\* files, files that are not PDFs, reversed markers, cut or malformed
\* packages, names that are not UTF-8, outputs that cannot be written --
\* hide_file, extract_file, check_hidden_data and get_hidden_file_info raise
\* nothing: a failure is returned as False or None.
C11_NoErrorEscapes ==
    last.op \in { "hide", "extract", "detect", "describe" } =>
        /\ ~last.escaped
        /\ last.err # "none" =>
              (~last.ok /\ last.ret = << >> /\ last.filename = << >> /\ last.size = 0)

\* C11: extract_file has returned None for a package whose name is not UTF-8
C11_Witness ==
    /\ last.op = "extract" /\ last.err = "ParseError"
    /\ ~last.escaped /\ ~last.ok
    /\ last.fs0[last.pdf] = Crafted(<< 255 >>, 1, Filler(1))

\* C12 (missing markers): on a file that starts with %PDF- and lacks START or
\* lacks END, extract_file fails with NoHiddenData and writes nothing, and
\* get_hidden_file_info returns None with no error.
C12_MissingMarkers ==
    ( /\ last.op \in { "extract", "describe" }
      /\ last.pdf \in DOMAIN last.fs0
      /\ HasPdfHeader(last.fs0[last.pdf])
      /\ ~(OccursIn(last.fs0[last.pdf], MARKER) /\ OccursIn(last.fs0[last.pdf], MARKER_END)) )
    => /\ ~last.ok /\ NothingWritten
       /\ last.op = "extract" => last.err = "NoHiddenData"
       /\ last.op = "describe" => last.err = "none"

\* C12: get_hidden_file_info has returned None, with no error, for a PDF that
\* holds START and no END
C12_Witness ==
    /\ last.op = "describe" /\ ~last.ok /\ last.err = "none"
    /\ last.fs0[last.pdf] = PDF_HEADER \o MARKER \o eof_marker

\* the file the last operation read is one check_hidden_data calls true: it
\* exists, starts with %PDF- and holds both markers
Detected ==
    /\ last.pdf \in DOMAIN last.fs0
    /\ HasPdfHeader(last.fs0[last.pdf])
    /\ OccursIn(last.fs0[last.pdf], MARKER)
    /\ OccursIn(last.fs0[last.pdf], MARKER_END)

\* C13 (CLI extract): the command calls check_hidden_data first; when that
\* is False it exits 1 having called nothing else and written nothing;
\* otherwise it calls get_hidden_file_info and then extract_file, whatever
\* the former returned, and exits 0 exactly when extract_file returned a path.
C13_CliExtract ==
    last.op = "cli_extract" =>
        /\ Len(last.calls) >= 1 /\ last.calls[1] = "detect"
        /\ ~Detected =>
              (last.exit = 1 /\ last.calls = << "detect" >> /\ NothingWritten)
        /\ Detected =>
              /\ last.calls = << "detect", "describe", "extract" >>
              /\ last.exit \in { 0, 1 }
              /\ last.exit = 0 <=> last.ret # << >>
              /\ last.ret # << >> <=> fs # last.fs0

\* C13: the command has exited 1 for a PDF that holds both markers and a
\* package that cannot be parsed, after its three calls
C13_Witness ==
    /\ last.op = "cli_extract" /\ Detected
    /\ last.err = "ParseError" /\ last.exit = 1
    /\ last.calls = << "detect", "describe", "extract" >>

\* C14 (CLI check): the command calls check_hidden_data, calls
\* get_hidden_file_info only when that returned True, writes nothing, and
\* exits 0 whatever the file is.
C14_CliCheck ==
    last.op = "cli_check" =>
        /\ last.exit = 0
        /\ NothingWritten
        /\ last.calls = IF Detected THEN << "detect", "describe" >> ELSE << "detect" >>

\* C14: the command has exited 0 for a PDF that holds both markers and a
\* package that cannot be parsed
C14_Witness ==
    /\ last.op = "cli_check" /\ Detected
    /\ last.err = "ParseError" /\ ~last.ok /\ last.exit = 0

\* the file at p is after the step what it was before
SameFile(p) ==
    /\ p \in DOMAIN fs <=> p \in DOMAIN fs'
    /\ p \in DOMAIN fs => fs'[p] = fs[p]

\* C15 (idempotent inspection): check_hidden_data and get_hidden_file_info
\* change no file and no directory, and what each returns for a path is the
\* same before and after every step that leaves the file at that path as it
\* was, whatever the step did to other paths; so two calls of one of them on
\* an unmodified file return the same.
C15_IdempotentInspection ==
    [][ /\ last'.op \in { "detect", "describe" } => (fs' = fs /\ dirs' = dirs)
        /\ \A p \in PdfPaths :
              SameFile(p) =>
                /\ check_hidden_data(fs', dirs', p) = check_hidden_data(fs, dirs, p)
                /\ get_hidden_file_info(fs', dirs', p) = get_hidden_file_info(fs, dirs, p)
        /\ last'.op = "detect" =>
              last'.ok = check_hidden_data(fs, dirs, last'.pdf).ret
        /\ last'.op = "describe" =>
              /\ last'.ok = get_hidden_file_info(fs, dirs, last'.pdf).found
              /\ last'.filename = get_hidden_file_info(fs, dirs, last'.pdf).filename
              /\ last'.size = get_hidden_file_info(fs, dirs, last'.pdf).size
        /\ (last.op = last'.op /\ last.pdf = last'.pdf /\ last.op \in { "detect", "describe" })
              => (last'.ok = last.ok /\ last'.filename = last.filename
                    /\ last'.size = last.size /\ last'.err = last.err)
      ]_vars

\* C15: check_hidden_data has been called on o.pdf after extract_file wrote
\* a file from it
C15_Witness ==
    /\ last.op = "detect" /\ last.pdf = OutputPath /\ last.ok
    /\ DOMAIN fs \ InitialPaths # {}

\* the part of the path p after its last '/'
FileName(p) ==
    LET seps == { i \in 1..Len(p) : p[i] = 47 }
        from == IF seps = {} THEN 0 ELSE CHOOSE i \in seps : \A j \in seps : j <= i
    IN  [ k \in 1..(Len(p) - from) |-> p[from + k] ]

\* the name n holds a '.'
HasDot(n) == \E i \in 1..Len(n) : n[i] = 46

\* the place of the last '.' of a name that holds one
LastDot(n) == CHOOSE i \in 1..Len(n) : n[i] = 46 /\ \A j \in (i + 1)..Len(n) : n[j] # 46

\* the characters of n after its last '.', upper-case letters made lower-case
FoldedExtension(n) ==
    [ k \in 1..(Len(n) - LastDot(n)) |->
        IF n[LastDot(n) + k] \in 65..90 THEN n[LastDot(n) + k] + 32 ELSE n[LastDot(n) + k] ]

\* txt, jpg, png, pdf, docx, exe
AllowedExtensions == { Tail(e) : e \in SUPPORTED_FORMATS }

\* C16 (payload extension gate): validate_file_format succeeds if and only
\* if the file name holds a '.' that comes after a character of the name
\* other than '.', and what follows the last '.', whatever its case, is one
\* of txt, jpg, png, pdf, docx, exe; a name that is only dots and an
\* extension (.txt) is rejected, as is a name with no dot.
C16_ExtensionGate ==
    last.op = "validate" =>
        ( last.ok <=>
            /\ HasDot(FileName(last.file))
            /\ \E j \in 1..(LastDot(FileName(last.file)) - 1) : FileName(last.file)[j] # 46
            /\ FoldedExtension(FileName(last.file)) \in AllowedExtensions )

\* C16 as the specification words it: validate_file_format succeeds if and
\* only if what follows the last '.' of the file name, whatever its case, is
\* one of txt, jpg, png, pdf, docx, exe -- for .txt as for a.tar.txt
C16_AfterLastDot ==
    last.op = "validate" =>
        ( last.ok <=>
            /\ HasDot(FileName(last.file))
            /\ FoldedExtension(FileName(last.file)) \in AllowedExtensions )

\* C16: validate_file_format has rejected .txt
C16_Witness ==
    /\ last.op = "validate" /\ ~last.ok
    /\ last.file = DotOnlyPath

\* C17 (termination of the collision loop): with finitely many files in the
\* output directory and nobody else writing, the loop ends, and it ends at a
\* path that does not exist when it is tested; it ends after exactly n
\* increments, at name_n.ext, when name.ext, name_1.ext, ..., name_(n-1).ext
\* are there and name_n.ext is not.
C17_LoopTerminates ==
    /\ [](run[1].pc = "write" => ~PathExists(fs, dirs, run[1].output_path))
    /\ []((run[1].pc \in { "write", "done" } /\ run[1].err = "none") =>
            /\ run[1].output_path =
                  Candidate(run[1].output_dir, run[1].filename, run[1].counter - 1)
            /\ \A j \in 0..(run[1].counter - 2) :
                  Key(dirs, Candidate(run[1].output_dir, run[1].filename, j)) \in DOMAIN fs)
    /\ []((run[1].pc = "done" /\ run[1].err = "none") =>
            /\ run[1].ret = run[1].output_path
            /\ fs[Key(dirs, run[1].ret)] = run[1].hidden_data)
    /\ (run[1].pc = "test") ~> (run[1].pc = "done")

\* C17: the loop has ended after three increments, at d/a_3.txt
C17_Witness ==
    /\ run[1].pc = "done"
    /\ run[1].counter = 4
    /\ run[1].ret = << 100, 47, 97, 95, 51, 46, 116, 120, 116 >>

\* C18 (repeated embedding): after hide_file calls on a carrier without
\* markers, each one after the first run on the output of the one before,
\* with payloads of allowed types that hold no marker but may hold %%EOF, the
\* output holds exactly one START and one END, and extract_file of it
\* succeeds with the name and the bytes of the payload of the last call.
C18_RepeatedEmbedding ==
    /\ emb[OutputPath].made =>
          /\ HowMany(fs[OutputPath], MARKER) = 1
          /\ HowMany(fs[OutputPath], MARKER_END) = 1
    /\ (last.op = "extract" /\ last.pdf = OutputPath /\ emb[OutputPath].made) =>
          /\ last.ok
          /\ last.filename = emb[OutputPath].N
          /\ last.data = emb[OutputPath].P


\* C19 (extract confinement): whatever name the package carries, path
\* separators, ".." and absolute paths included, an extract_file that
\* succeeds creates exactly one new file, that file lies directly in
\* output_dir, and every file that was there before is as it was.
C19_ExtractConfined ==
    (last.op = "extract" /\ last.ok) =>
        /\ Cardinality(DOMAIN fs \ DOMAIN last.fs0) = 1
        /\ \A k \in DOMAIN fs \ DOMAIN last.fs0 : ParentKey(k) = Key(dirs, last.out)
        /\ Untouched(DOMAIN last.fs0)

\* C20 (a failed extract has no effect): when extract_file fails because the
\* PDF is missing, does not start with %PDF-, holds no package, holds a
\* package that does not parse, or fails the length check, the files and the
\* directories are what they were before the call: output_dir is made only
\* after the length check.
C20_FailedExtractNoEffect ==
    ( /\ last.op = "extract" /\ ~last.ok
      /\ last.err \in { "NotFound", "InvalidFormat", "NoHiddenData",
                        "ParseError", "DataCorruption" } )
    => NothingWritten

\* C20: extract_file into d, which does not exist, has failed the length check
C20_Witness ==
    /\ last.op = "extract" /\ ~last.ok
    /\ last.err = "DataCorruption"
    /\ last.out = OutputDir
    /\ OutputDir \notin last.dirs0

\* C21 (concurrent extracts): when two extract_file calls on the same PDF
\* into the same directory run at once, their tests of the loop and their
\* writes in any order, the two calls never stand before the write with the
\* same path, they return two different paths, and the file at each path
\* holds the whole payload.
C21_ConcurrentExtracts ==
    /\ (run[1].pc = "write" /\ run[2].pc = "write") =>
          Key(dirs, run[1].output_path) # Key(dirs, run[2].output_path)
    /\ ( /\ run[1].pc = "done" /\ run[1].err = "none"
         /\ run[2].pc = "done" /\ run[2].err = "none" ) =>
          /\ Key(dirs, run[1].ret) # Key(dirs, run[2].ret)
          /\ \A self \in Procs :
                /\ Key(dirs, run[self].ret) \in DOMAIN fs
                /\ fs[Key(dirs, run[self].ret)] = run[self].hidden_data

=============================================================================
